---- MODULE Spec2Model ----
(***************************************************************************)
(* Weekly "paid storage" report job: for every API key found in the        *)
(* settings sheet, submit a report task to the Wildberries API, download   *)
(* the report, format it and replace the rows of the key's report sheet.   *)
(*                                                                         *)
(* Modelled from src/main.py, src/wb_api.py, src/sheets_client.py and      *)
(* src/config.py.  The remote API, the spreadsheet service and the random  *)
(* number generator are the environment: every answer they can give is an  *)
(* input drawn with \E.                                                    *)
(***************************************************************************)
EXTENDS Integers, Sequences, FiniteSets, TLC

----------------------------------------------------------------------------
(* Bounds of the model *)

\* runs of process_storage_report a behaviour follows
MaxRuns == 1
\* records in one downloaded report
MaxRecords == 2
\* characters of a Retry-After header value
MaxHintLen == 3
\* spreadsheet calls that raise in one behaviour
MaxFaults == 1
\* the weeks the wall clock is followed through after the week of the start
MaxWeeks == 1
\* the operations applied to a sheet in the sheet runs
MaxOps == 3

----------------------------------------------------------------------------
(* config.py *)

RETRY_DELAY == 60
MAX_RETRIES == 3

\* REPORTS_CONFIG: the key cells, in the dictionary's insertion order
REPORTS_CONFIG == <<"B1", "C1">>

Cells == {REPORTS_CONFIG[i] : i \in 1..Len(REPORTS_CONFIG)}

\* HEADERS: the 23 column titles
HEADERS ==
  << "Data raschyota", "Koef. logistiki", "ID sklada", "Sklad", "Koef. sklada",
     "ID postavki", "ID razmera", "Razmer", "Barkod", "Predmet", "Brend",
     "Artikul prodavca", "Artikul WB", "Obyom", "Sposob raschyota",
     "Summa hraneniya", "Kol-vo tovarov", "Kod palletomesta", "Kol-vo pallet",
     "Data pervonach. raschyota", "Skidka loyalnosti", "Data fiksacii tarifa",
     "Data ponizheniya tarifa" >>

----------------------------------------------------------------------------
(* wb_api.py: format_storage_data *)

\* the item.get(name, default) calls of format_storage_data, in row order
FormatFields ==
  << <<"date", "">>, <<"logWarehouseCoef", 0>>, <<"officeId", "">>,
     <<"warehouse", "">>, <<"warehouseCoef", 0>>, <<"giId", "">>,
     <<"chrtId", "">>, <<"size", "">>, <<"barcode", "">>, <<"subject", "">>,
     <<"brand", "">>, <<"vendorCode", "">>, <<"nmId", "">>, <<"volume", 0>>,
     <<"calcType", "">>, <<"warehousePrice", 0>>, <<"barcodesCount", 0>>,
     <<"palletPlaceCode", "">>, <<"palletCount", 0>>, <<"originalDate", "">>,
     <<"loyaltyDiscount", 0>>, <<"tariffFixDate", "">>,
     <<"tariffLowerDate", "">> >>

\* dict.get(key, default)
DictGet(item, key, default) ==
  IF key \in DOMAIN item THEN item[key] ELSE default

\* the row literal without its last element
FormatRowShort(item) ==
  [i \in 1..(Len(FormatFields) - 1) |->
      DictGet(item, FormatFields[i][1], FormatFields[i][2])]

\* the row literal of lines 209-233
FormatRow(item) ==
  [i \in 1..Len(FormatFields) |->
      DictGet(item, FormatFields[i][1], FormatFields[i][2])]

format_storage_data(data) ==
  IF Len(data) = 0 THEN <<>>
  ELSE [i \in 1..Len(data) |-> FormatRow(data[i])]

RECURSIVE SeqsUpTo(_, _)
SeqsUpTo(S, n) ==
  IF n = 0 THEN {<<>>}
  ELSE LET shorter == SeqsUpTo(S, n - 1)
       IN  shorter \cup {Append(s, x) : s \in {t \in shorter : Len(t) = n - 1}, x \in S}

\* the records of a report, in the order the API sends them
RecordStream(i) ==
  IF i % 2 = 1 THEN [date |-> "2025-06-09", warehouse |-> "Coast"]
  ELSE [date |-> "2025-06-10", volume |-> 2, unknownField |-> "x"]

\* non-empty report payloads of the run model
Reports == {[i \in 1..n |-> RecordStream(i)] : n \in 1..MaxRecords}

----------------------------------------------------------------------------
(* wb_api.py: _handle_rate_limit *)

\* characters a Retry-After header value is built from in the model
HintChars == {"0", "1", "5", "-", " ", "x"}

Digits == {"0", "1", "5"}

DigitValue(ch) == CASE ch = "0" -> 0 [] ch = "1" -> 1 [] ch = "5" -> 5

\* header values: every string of at most MaxHintLen characters
HintValues == SeqsUpTo(HintChars, MaxHintLen)

\* response.headers.get('Retry-After'): None or the header's text
RetryAfterHeaders ==
  {[present |-> FALSE, text |-> <<>>]} \cup
  {[present |-> TRUE, text |-> t] : t \in HintValues}

RECURSIVE LStrip(_)
LStrip(s) == IF Len(s) > 0 /\ Head(s) = " " THEN LStrip(Tail(s)) ELSE s

RECURSIVE RStrip(_)
RStrip(s) ==
  IF Len(s) > 0 /\ s[Len(s)] = " " THEN RStrip(SubSeq(s, 1, Len(s) - 1)) ELSE s

RECURSIVE DecimalValue(_)
DecimalValue(s) ==
  IF Len(s) = 0 THEN 0
  ELSE 10 * DecimalValue(SubSeq(s, 1, Len(s) - 1)) + DigitValue(s[Len(s)])

\* Python's int(text): surrounding whitespace is stripped, one sign is allowed,
\* then decimal digits; anything else raises ValueError (ok = FALSE)
PyInt(text) ==
  LET t      == RStrip(LStrip(text))
      signed == Len(t) > 0 /\ t[1] \in {"-", "+"}
      body   == IF signed THEN Tail(t) ELSE t
      good   == Len(body) > 0 /\ \A i \in 1..Len(body) : body[i] \in Digits
  IN  IF ~good THEN [ok |-> FALSE, val |-> 0]
      ELSE [ok |-> TRUE,
            val |-> IF signed /\ t[1] = "-" THEN 0 - DecimalValue(body)
                    ELSE DecimalValue(body)]

\* random.randint(a, b)
randint(a, b) == a..b

\* the fallback wait of _handle_rate_limit
RateLimitJitter == randint(60, 120)

\* _handle_rate_limit(response); rnd is the value random.randint(60, 120) draws
handle_rate_limit(retry_after, rnd) ==
  IF retry_after.present /\ Len(retry_after.text) > 0 /\ PyInt(retry_after.text).ok
    THEN PyInt(retry_after.text).val
    ELSE rnd

----------------------------------------------------------------------------
(* wb_api.py: the HTTP session of _create_session *)

\* what the server (or the network) answers to one HTTP request
\*   "200"              success, with a body
\*   "429", "5xx"       a status of status_forcelist
\*   "4xx"              an error status that is not in status_forcelist
\*   "connect_timeout"  the connection attempt timed out
\*   "connection_error" the connection failed or the read timed out
status_forcelist == {"429", "5xx"}

ConnectionFailures == {"connect_timeout", "connection_error"}

\* Retry(total=MAX_RETRIES, status_forcelist=..., allowed_methods=["GET"]):
\* every request of the client is a GET, so a status of status_forcelist and a
\* connection failure are retried inside session.get while the budget lasts;
\* when it is spent, session.get raises
\*   ConnectTimeout  (a requests Timeout)        after a connect timeout,
\*   RetryError "too many 429 error responses"   after a 429,
\*   RetryError "too many 5xx error responses"   after a 5xx,
\*   ConnectionError                             otherwise.
\* Any other answer is handed to the caller as the response.
session_get(answer, left) ==
  IF answer.kind \in status_forcelist \cup ConnectionFailures
    THEN IF left > 0
           THEN [type |-> "retry", exc |-> "", status |-> "", body |-> answer.body,
                 retry_after |-> answer.retry_after]
           ELSE [type |-> "exception",
                 exc  |-> CASE answer.kind = "connect_timeout"  -> "Timeout"
                            [] answer.kind = "connection_error" -> "ConnectionError"
                            [] answer.kind = "429"              -> "RetryError429"
                            [] answer.kind = "5xx"              -> "RetryError5xx",
                 status |-> "", body |-> answer.body,
                 retry_after |-> answer.retry_after]
    ELSE [type |-> "response", exc |-> "", status |-> answer.kind,
          body |-> answer.body, retry_after |-> answer.retry_after]

NoBody == [shape |-> "none", records |-> <<>>]

NoHeader == [present |-> FALSE, text |-> <<>>]

\* Retry-After values the server sends with a status in the run model
RunHints == {NoHeader, [present |-> TRUE, text |-> <<"1", "5">>]}

ErrorAnswers ==
  {[kind |-> k, body |-> NoBody, retry_after |-> NoHeader] :
      k \in {"5xx", "4xx", "connect_timeout", "connection_error"}}
  \cup {[kind |-> "429", body |-> NoBody, retry_after |-> h] : h \in RunHints}

\* bodies of a successful submit: {"data": {"taskId": ...}}, a JSON object
\* without data.taskId, and JSON of another shape ({"data": null}, a list)
SubmitBodies ==
  {[shape |-> sh, records |-> <<>>] : sh \in {"task", "no_task", "bad_shape"}}

\* bodies of a successful download: an empty JSON value, a list of records,
\* and truthy JSON that is no list of objects (an error object, say)
DownloadBodies ==
  {[shape |-> "empty", records |-> <<>>], [shape |-> "bad_shape", records |-> <<>>]}
  \cup {[shape |-> "records", records |-> r] : r \in Reports}

SubmitAnswers ==
  ErrorAnswers \cup
  {[kind |-> "200", body |-> b, retry_after |-> NoHeader] : b \in SubmitBodies}

DownloadAnswers ==
  ErrorAnswers \cup
  {[kind |-> "200", body |-> b, retry_after |-> NoHeader] : b \in DownloadBodies}

\* the seller whose token stands in a key cell, after the names of
\* REPORTS_CONFIG
SellerOf(cell) == IF cell = REPORTS_CONFIG[1] THEN "Kuznetsov" ELSE "Tsarev"

\* What the server sends for the download of wb_api.py lines 141-152, asked
\* for with the token of key cell `cell` in the Authorization header and with
\* `task` in the URL: the records of a report are those of that seller (brand)
\* under that task (giId)
task_download(answer, cell, task) ==
  IF answer.kind = "200" /\ answer.body.shape = "records"
    THEN [answer EXCEPT !.body.records =
            [i \in DOMAIN @ |-> [brand |-> SellerOf(cell), giId |-> task] @@ @[i]]]
  ELSE answer

----------------------------------------------------------------------------
(* wb_api.py: get_task_id and get_storage_report, one session.get each *)

\* max_attempts one too small, and one too large
max_attempts_short == 5 - 1

max_attempts_long == 5 + 1

max_attempts == 5

\* random.randint(a, b) in the run model: one of the ends of the range; an
\* iteration draws at most once, u says which end this draw takes
Draws == {"low", "high"}

Draw(a, b, u) == IF u = "low" THEN a ELSE b

\* the except clauses with a timeout answered by another call of get_task_id
get_task_id_except_retrying(exc) ==
  IF exc = "Timeout"
    THEN [act |-> "recurse", value |-> "None", sleep |-> 0, why |-> "timeout"]
    ELSE [act |-> "return", value |-> "None", sleep |-> 0,
          why |-> "transport_error"]

\* the except clauses of get_task_id: Timeout first, then every other
\* RequestException; both log and return None
get_task_id_except(exc) ==
  IF exc = "Timeout"
    THEN [act |-> "return", value |-> "None", sleep |-> 0, why |-> "timeout"]
    ELSE [act |-> "return", value |-> "None", sleep |-> 0,
          why |-> "transport_error"]

\* what get_task_id does with the outcome of its session.get
\*   act "return":  returns value ("task" for the task id, "None" otherwise)
\*   act "recurse": sleeps `sleep` seconds and calls get_task_id again
\*   act "raise":   an exception that is no RequestException leaves the method
get_task_id_step(res, rnd) ==
  IF res.type = "exception" THEN get_task_id_except(res.exc)
  ELSE IF res.status = "429"
    THEN LET wait_time == handle_rate_limit(res.retry_after, rnd)
         IN  IF wait_time < 0
               THEN [act |-> "raise", value |-> "None", sleep |-> 0, why |-> "sleep"]
               ELSE [act |-> "recurse", value |-> "None", sleep |-> wait_time,
                     why |-> "rate_limit"]
  ELSE IF res.status # "200"
    THEN [act |-> "return", value |-> "None", sleep |-> 0, why |-> "http_error"]
  ELSE IF res.body.shape = "task"
    THEN [act |-> "return", value |-> "task", sleep |-> 0, why |-> "task"]
  ELSE IF res.body.shape = "no_task"
    THEN [act |-> "return", value |-> "None", sleep |-> 0, why |-> "no_task"]
  ELSE [act |-> "raise", value |-> "None", sleep |-> 0, why |-> "bad_shape"]

\* the polling delay with a cap of ten minutes
PollingDelayCapped(attempt) ==
  IF RETRY_DELAY * (2 ^ attempt) > 600 THEN 600 ELSE RETRY_DELAY * (2 ^ attempt)

\* wait_time = RETRY_DELAY * (2 ** current_attempt)
PollingDelay(attempt) == RETRY_DELAY * (2 ^ attempt)

\* the test of the body with its sense inverted
TruthyInverted(body) == body.shape = "empty"

\* `if data:` of get_storage_report
Truthy(body) == body.shape # "empty"

NoSleep == [kind |-> "none", secs |-> 0]

\* the except clauses with the exhausted rate-limit budget treated like every
\* other RequestException
get_storage_report_except_aborting(exc, attempt, settle, cooldown) ==
  CASE exc = "Timeout" ->
         [act |-> "continue", value |-> "None", attempt |-> attempt + 1,
          sleep |-> NoSleep, why |-> "timeout"]
    [] exc = "ConnectionError" ->
         [act |-> "continue", value |-> "None", attempt |-> attempt + 1,
          sleep |-> [kind |-> "settle", secs |-> settle],
          why |-> "connection_error"]
    [] OTHER ->
         [act |-> "return", value |-> "None", attempt |-> attempt,
          sleep |-> NoSleep, why |-> "request_error"]

\* the except clauses with the settle sleep after a timeout as well
get_storage_report_except_settling(exc, attempt, settle, cooldown) ==
  CASE exc \in {"Timeout", "ConnectionError"} ->
         [act |-> "continue", value |-> "None", attempt |-> attempt + 1,
          sleep |-> [kind |-> "settle", secs |-> settle],
          why |-> IF exc = "Timeout" THEN "timeout" ELSE "connection_error"]
    [] exc = "RetryError429" ->
         [act |-> "continue", value |-> "None", attempt |-> attempt + 1,
          sleep |-> [kind |-> "cooldown", secs |-> cooldown],
          why |-> "too_many_429"]
    [] OTHER ->
         [act |-> "return", value |-> "None", attempt |-> attempt,
          sleep |-> NoSleep, why |-> "request_error"]

\* the except clauses with a timeout that leaves current_attempt as it is
get_storage_report_except_stalling(exc, attempt, settle, cooldown) ==
  CASE exc = "Timeout" ->
         [act |-> "continue", value |-> "None", attempt |-> attempt,
          sleep |-> NoSleep, why |-> "timeout"]
    [] exc = "ConnectionError" ->
         [act |-> "continue", value |-> "None", attempt |-> attempt + 1,
          sleep |-> [kind |-> "settle", secs |-> settle],
          why |-> "connection_error"]
    [] exc = "RetryError429" ->
         [act |-> "continue", value |-> "None", attempt |-> attempt + 1,
          sleep |-> [kind |-> "cooldown", secs |-> cooldown],
          why |-> "too_many_429"]
    [] OTHER ->
         [act |-> "return", value |-> "None", attempt |-> attempt,
          sleep |-> NoSleep, why |-> "request_error"]

\* the except clauses of the loop of get_storage_report, in their order:
\* Timeout, ConnectionError, then every other RequestException, where the
\* message "too many 429 error responses" (the RetryError of the session after
\* its last 429) is told from the rest; "HTTPError" is what raise_for_status
\* raises
get_storage_report_except(exc, attempt, settle, cooldown) ==
  CASE exc = "Timeout" ->
         [act |-> "continue", value |-> "None", attempt |-> attempt + 1,
          sleep |-> NoSleep, why |-> "timeout"]
    [] exc = "ConnectionError" ->
         [act |-> "continue", value |-> "None", attempt |-> attempt + 1,
          sleep |-> [kind |-> "settle", secs |-> settle],
          why |-> "connection_error"]
    [] exc = "RetryError429" ->
         [act |-> "continue", value |-> "None", attempt |-> attempt + 1,
          sleep |-> [kind |-> "cooldown", secs |-> cooldown],
          why |-> "too_many_429"]
    [] OTHER ->
         [act |-> "return", value |-> "None", attempt |-> attempt,
          sleep |-> NoSleep, why |-> "request_error"]

\* what one iteration of the while loop of get_storage_report does with the
\* outcome of its session.get; rl, settle and cooldown are the random draws
\*   act "return":   returns value ("data" for the parsed body, "None")
\*   act "continue": goes on with attempt as current_attempt
\*   act "raise":    an exception that is no RequestException leaves the method
get_storage_report_step(res, attempt, rl, settle, cooldown) ==
  IF res.type = "exception"
    THEN get_storage_report_except(res.exc, attempt, settle, cooldown)
  ELSE IF res.status = "429"
    THEN LET wait_time == handle_rate_limit(res.retry_after, rl)
         IN  IF wait_time < 0
               THEN [act |-> "raise", value |-> "None", attempt |-> attempt,
                     sleep |-> NoSleep, why |-> "sleep"]
               ELSE [act |-> "continue", value |-> "None", attempt |-> attempt + 1,
                     sleep |-> [kind |-> "rate_limit", secs |-> wait_time],
                     why |-> "rate_limit"]
  ELSE IF res.status # "200"
    THEN get_storage_report_except("HTTPError", attempt, settle, cooldown)
  ELSE IF Truthy(res.body)
    THEN [act |-> "return", value |-> "data", attempt |-> attempt,
          sleep |-> NoSleep, why |-> "data"]
  ELSE [act |-> "continue", value |-> "None", attempt |-> attempt + 1,
        sleep |-> NoSleep, why |-> "empty"]

----------------------------------------------------------------------------
(* sheets_client.py: a report sheet is the sequence of its rows; a row is   *)
(* the sequence of its cells, <<>> a blank row                             *)

\* rows up to the last one that is not blank (get_all_values, append)
RECURSIVE Trim(_)
Trim(s) ==
  IF Len(s) > 0 /\ Len(s[Len(s)]) = 0 THEN Trim(SubSeq(s, 1, Len(s) - 1)) ELSE s

\* sheet.row_values(1)
row_values_1(s) == IF Len(s) > 0 THEN s[1] ELSE <<>>

\* sheet.append_row / sheet.append_rows: below the last row that has values
append_rows(s, rows) == Trim(s) \o rows

\* sheet.update('A1:W1', [HEADERS]): the cells of row 1 to the right of column
\* W stay as they are
update_row_1(s) ==
  IF Len(s) = 0 THEN <<HEADERS>>
  ELSE [s EXCEPT ![1] = HEADERS \o SubSeq(@, Len(HEADERS) + 1, Len(@))]

\* sheet.batch_clear(['A2:W{row_count}'])
batch_clear_from_2(s) ==
  Trim([i \in 1..Len(s) |-> IF i >= 2 THEN <<>> ELSE s[i]])

\* the test of _ensure_headers_exists and of _ensure_headers on a first row
\* that is not empty
HeaderWrong(first_row) ==
  Len(first_row) < Len(HEADERS) \/ first_row[1] # HEADERS[1]

\* _ensure_headers_exists; failed: the spreadsheet call raised (caught, logged)
ensure_headers_exists(s, failed) ==
  IF failed THEN s
  ELSE LET first_row == row_values_1(s)
       IN  IF Len(first_row) = 0 \/ HeaderWrong(first_row)
             THEN update_row_1(s) ELSE s

\* _ensure_headers
ensure_headers(s, failed) ==
  IF failed THEN s
  ELSE LET first_row == row_values_1(s)
       IN  IF Len(first_row) = 0 THEN append_rows(s, <<HEADERS>>)
           ELSE IF HeaderWrong(first_row) THEN update_row_1(s)
           ELSE s

\* _clear_sheet_data
clear_sheet_data(s, failed) ==
  IF failed THEN s
  ELSE LET row_count == Len(Trim(s))
       IN  IF row_count > 1 THEN batch_clear_from_2(s)
           ELSE IF row_count = 0 THEN append_rows(s, <<HEADERS>>)
           ELSE s

\* append_report_data(data, api_key_cell) on the sheet s of the cell; the three
\* flags say which spreadsheet call raised
append_report_data(s, data, hdr_failed, clear_failed, append_failed) ==
  IF Len(data) = 0 THEN s
  ELSE LET checked == ensure_headers(s, hdr_failed)
           cleared == clear_sheet_data(checked, clear_failed)
       IN  IF append_failed THEN cleared ELSE append_rows(cleared, data)

\* the rows below the first row
DataRows(s) == SubSeq(s, 2, Len(s))

----------------------------------------------------------------------------
(* State *)

VARIABLES
  pc,              \* where the program is: "boot", "ensure_headers",
                   \* "get_api_keys", "loop", "get_task_id",
                   \* "get_storage_report", "persist", "done";
                   \* "policy", "policy_done" in the policy runs
  run,             \* calls of process_storage_report so far
  outcome,         \* how the current run ended: "running", "no_keys",
                   \* "completed", "crashed" (the except of line 87)
  exists,          \* exists[c]: the report sheet of key cell c exists
  sheet,           \* sheet[c]: the rows of the report sheet of key cell c
  watermark,       \* cell B4 of the settings sheet, the last processed date
  api_keys,        \* the key cells get_api_keys found, in order
  idx,             \* position in api_keys of the credential being processed
  result,          \* result[c]: how far the run got with the credential of c
  retriesLeft,     \* what is left of Retry.total in the running session.get
  sub,             \* the get_task_id call of the current credential
  task_id,         \* the task id get_task_id returned, 0 for none
  nextTask,        \* the next task id the server hands out
  current_attempt, \* current_attempt of get_storage_report
  fetch,           \* the get_storage_report call of the current credential
  report_data,     \* what get_storage_report returned
  persist,         \* the append_report_data call of the current credential
  faults,          \* spreadsheet calls that raised so far
  policy,          \* a call of _handle_rate_limit (policy runs)
  rows_at_start,   \* the rows below the first row as the current run found them
  settings,        \* what get_api_keys read from the key cells in this run
  sched,           \* the scheduler loop of main
  runs_left,       \* calls of process_storage_report the behaviour still follows
  fmt,             \* a call of format_storage_data (format runs)
  handles,         \* the task ids the server handed out, and the
                   \* get_storage_report calls that were given each
  clock,           \* the wall clock: the week, and where in the week
  sheet_op         \* the last operation on a sheet (sheet runs)

vars ==
  << pc, run, outcome, exists, sheet, watermark, api_keys, idx, result,
     retriesLeft, sub, task_id, nextTask, current_attempt, fetch, report_data,
     persist, faults, policy, rows_at_start, settings, sched, runs_left, fmt,
     handles, clock, sheet_op >>

\* date_to of get_specific_week_dates(2025, 6, 9, 15, TIMEZONE), as '%Y-%m-%d'
date_to_str == "2025-06-15"

\* a row an earlier week's report left in a sheet
OldRow == FormatRow([date |-> "2025-06-02", warehouse |-> "Coast"])

\* a first row whose first cell is not the first column title
WrongHeader == [HEADERS EXCEPT ![1] = "Date"]

\* what a report sheet that exists can hold when the program starts
InitialSheets == { <<HEADERS, OldRow>>, <<WrongHeader, OldRow>> }

\* sub: gets = calls of session.get, requests = HTTP requests, n429 = answers
\* with status 429, exc = the exception the last session.get raised, slept =
\* the last rate-limit sleep, got = the body of the answer with status 200,
\* why = how the call ended
NewSub ==
  [ gets |-> 0, requests |-> 0, n429 |-> 0, exc |-> "", slept |-> 0,
    got |-> "", why |-> "" ]

\* fetch: inGet = a session.get is under way, downloads = calls of session.get,
\* pollDelay = the sleep before the last one, extraSleep = the sleep after it,
\* got = the body the last one was answered with ("" without a 200 answer),
\* saw429 = a request of the last one was answered with status 429, exc = the
\* exception the last one ended with (raised by session.get or by
\* raise_for_status), emptyCount = calls answered with an empty body,
\* lastOutcome = what the loop made of the last call, end = how
\* get_storage_report ended
NewFetch ==
  [ inGet |-> FALSE, downloads |-> 0, pollDelay |-> 0, extraSleep |-> NoSleep,
    got |-> "", saw429 |-> FALSE, exc |-> "", emptyCount |-> 0,
    lastOutcome |-> "", end |-> "" ]

\* persist: prior = the rows below the first row before the call, new = the
\* rows to write, raised = which of the three spreadsheet calls raised (the
\* header check, the clearing, the append)
NoPersist ==
  [called |-> FALSE, prior |-> <<>>, new |-> <<>>,
   raised |-> <<FALSE, FALSE, FALSE>>]

\* what the key cells hold: a token or nothing
CellValues == {"", "token"}

\* settings: read = get_api_keys was called, value[c] = what it got from the
\* key cell c
NoSettings == [read |-> FALSE, value |-> [c \in Cells |-> ""]]

\* time.sleep(60) of the scheduler loop, after run_pending and in its except
loop_pause == 60

\* The slots of a week, in order: "before" = Monday before the hour of the
\* job, "early" = in that hour and before the job's minute, "late" = in that
\* hour at or after the job's minute, "after" = the rest of the week
Slots == <<"before", "early", "late", "after">>

\* the wall clock when the process starts: after Monday's hour, in week 0
StartClock == [week |-> 0, slot |-> 4]

\* sched: registered = the weekly job is registered with schedule, raised = the
\* last iteration of the while loop raised, pause = the sleep that ended it,
\* next_run = the week in which the job is due next (at its minute of
\* Monday's hour), fired = the clock readings at which run_pending started
\* the job, immediate = the clock reading at which main made its call of
\* line 99
NoSched == [registered |-> FALSE, raised |-> FALSE, pause |-> 0,
            next_run |-> 0, fired |-> <<>>, immediate |-> <<>>]

\* main.py line 113 and the rescheduling after a run of the job:
\* every().monday.at(schedule_time) is due at the first Monday 06:MM after
\* now, which is this week's while now is before it and next week's otherwise
schedule_next_run(now) ==
  IF now.slot \in {1, 2} THEN now.week ELSE now.week + 1

\* Job.should_run, as run_pending of main.py line 120 evaluates it: now is at
\* or after the time the job is due
should_run(s, now) ==
  /\ s.registered
  /\ \/ now.week > s.next_run
     \/ now.week = s.next_run /\ now.slot >= 3

\* time.sleep(60) of lines 121 and 124: the clock stays in its slot (tick = 0)
\* or enters the next one (tick = 1)
sleep_60(now, tick) ==
  IF tick = 0 THEN now
  ELSE IF now.slot < Len(Slots) THEN [now EXCEPT !.slot = @ + 1]
  ELSE [week |-> now.week + 1, slot |-> 1]

\* A task id the server handed out: cell and run = the credential and the run
\* whose get_task_id call returned it (main.py line 66), calls = the
\* get_storage_report calls that were given it, each as <<cell, run>>
NewHandle(task, cell, r) ==
  [task |-> task, cell |-> cell, run |-> r, calls |-> <<>>]

\* main.py line 72: the credential of cell calls get_storage_report(tid) in
\* run r
get_storage_report_enter(hs, tid, cell, r) ==
  [i \in DOMAIN hs |->
     IF hs[i].task = tid THEN [hs[i] EXCEPT !.calls = Append(@, <<cell, r>>)]
     ELSE hs[i]]

\* sheet_op: n = the operations applied so far, op = the last one,
\* first_before = row 1 of the sheet before it
NoSheetOp == [n |-> 0, op |-> "", first_before |-> <<>>]

\* fmt: data = the argument of format_storage_data, rows = what it returned
NoFormat == [called |-> FALSE, data |-> <<>>, rows |-> <<>>]

NoPolicy == [retry_after |-> NoHeader, wait |-> 0]

NoResults == [c \in Cells |-> ""]

RunFields ==
  /\ run = 0
  /\ outcome = "running"
  /\ api_keys = <<>>
  /\ idx = 0
  /\ result = NoResults
  /\ retriesLeft = MAX_RETRIES
  /\ sub = NewSub
  /\ task_id = 0
  /\ nextTask = 1
  /\ current_attempt = 0
  /\ fetch = NewFetch
  /\ report_data = NoBody
  /\ persist = NoPersist
  /\ faults = 0
  /\ rows_at_start = [c \in Cells |-> DataRows(sheet[c])]
  /\ settings = NoSettings
  /\ sched = NoSched
  /\ handles = <<>>
  /\ clock = StartClock
  /\ sheet_op = NoSheetOp

\* the number of spreadsheet calls that raise, among the calls flagged
Raised(flags) == Cardinality({i \in DOMAIN flags : flags[i]})

Init ==
  /\ pc = "boot"
  /\ exists \in [Cells -> BOOLEAN]
  /\ sheet \in [Cells -> InitialSheets \cup {<<>>}]
  /\ \A c \in Cells : exists[c] <=> sheet[c] # <<>>
  /\ watermark = "2025-06-08"
  /\ policy = NoPolicy
  /\ fmt = NoFormat
  /\ runs_left = MaxRuns
  /\ RunFields

----------------------------------------------------------------------------
(* main.py: process_storage_report *)

\* the except of process_storage_report that lets everything but a
\* RequestException pass
process_storage_report_except_requests_only(exc) == exc = "RequestException"

\* `except Exception` of line 87: every exception a collaborator raises is
\* caught ("APIError" of gspread, "AttributeError", "ValueError")
process_storage_report_except(exc) == exc \in {"APIError", "AttributeError", "ValueError", "RequestException"}

\* an exception reaches the except of line 87: logged, and the function
\* returns.  An exception that were not caught there would reach the caller:
\* on the immediate run the except of main (line 126), which raises it again
\* and ends the process, on a scheduled run the except of the loop (line 122)
Crash(exc) ==
  /\ outcome' = "crashed"
  /\ pc' = IF process_storage_report_except(exc) THEN "done"
           ELSE IF sched.registered THEN "run_pending"
           ELSE "terminated"

\* GoogleSheetsClient._get_or_create_reports_sheets from the i-th cell on;
\* st = [exists, sheet, raised]; failed[c]: the spreadsheet call that writes
\* or checks the headers of c's sheet raised
RECURSIVE get_or_create_reports_sheets(_, _, _)
get_or_create_reports_sheets(i, st, failed) ==
  IF i > Len(REPORTS_CONFIG) \/ st.raised THEN st
  ELSE LET c == REPORTS_CONFIG[i]
           next ==
             IF st.exists[c]
               THEN [st EXCEPT !.sheet[c] = ensure_headers_exists(@, failed[c])]
               ELSE [exists |-> [st.exists EXCEPT ![c] = TRUE],
                     sheet  |-> [st.sheet EXCEPT
                                   ![c] = IF failed[c] THEN <<>> ELSE <<HEADERS>>],
                     raised |-> failed[c]]
       IN  get_or_create_reports_sheets(i + 1, next, failed)

\* lines 31-35: a run starts (main calls it at once, line 99; later
\* schedule.run_pending() of line 120 does when the job is due)
\* and builds its GoogleSheetsClient; opened = FALSE: opening the spreadsheet
\* raised
StartRun ==
  /\ pc = "boot" \/ (pc = "run_pending" /\ should_run(sched, clock))
  /\ runs_left > 0
  /\ runs_left' = runs_left - 1
  /\ run' = run + 1
  /\ rows_at_start' = [c \in Cells |-> DataRows(sheet[c])]
  /\ settings' = NoSettings
  /\ sched' = [sched EXCEPT !.raised = FALSE, !.pause = 0,
                            !.fired = IF pc = "run_pending"
                                        THEN Append(@, clock) ELSE @,
                            !.immediate = IF pc = "boot"
                                            THEN Append(@, clock) ELSE @]
  /\ \E opened \in BOOLEAN, failed \in [Cells -> BOOLEAN] :
       LET st == get_or_create_reports_sheets(
                   1, [exists |-> exists, sheet |-> sheet, raised |-> FALSE], failed)
           n  == Raised(failed) + IF opened THEN 0 ELSE 1
       IN  /\ faults + n <= MaxFaults
           /\ faults' = faults + n
           /\ IF ~opened
                THEN /\ Raised(failed) = 0
                     /\ Crash("APIError")
                     /\ UNCHANGED <<exists, sheet>>
                ELSE /\ exists' = st.exists
                     /\ sheet' = st.sheet
                     /\ IF st.raised THEN Crash("APIError")
                        ELSE pc' = "ensure_headers" /\ outcome' = "running"
  /\ api_keys' = <<>>
  /\ idx' = 0
  /\ result' = NoResults
  /\ retriesLeft' = MAX_RETRIES
  /\ sub' = NewSub
  /\ task_id' = 0
  /\ current_attempt' = 0
  /\ fetch' = NewFetch
  /\ report_data' = NoBody
  /\ persist' = NoPersist
  /\ UNCHANGED <<watermark, nextTask, policy, fmt, handles, clock, sheet_op>>

\* lines 37-42: _ensure_headers on the sheet of every cell
EnsureHeaders ==
  /\ pc = "ensure_headers"
  /\ \E failed \in [Cells -> BOOLEAN] :
       /\ faults + Raised(failed) <= MaxFaults
       /\ faults' = faults + Raised(failed)
       /\ sheet' = [c \in Cells |-> ensure_headers(sheet[c], failed[c])]
  /\ pc' = "get_api_keys"
  /\ UNCHANGED << run, outcome, exists, watermark, api_keys, idx, result,
                  retriesLeft, sub, task_id, nextTask, current_attempt, fetch,
                  report_data, persist, policy >>
  /\ UNCHANGED << rows_at_start, settings, sched, runs_left, fmt, handles, clock, sheet_op >>

\* get_api_keys with the test of the cell's value left out
get_api_keys_all(value) == REPORTS_CONFIG

\* GoogleSheetsClient.get_api_keys: the cells of REPORTS_CONFIG, in order,
\* whose value is truthy; value[c] = "" also stands for a cell that was not
\* read because reading the settings sheet raised (the except returns what
\* was found so far)
get_api_keys(value) == SelectSeq(REPORTS_CONFIG, LAMBDA c : value[c] # "")

\* lines 44-56: get_api_keys; without any key the run returns
GetApiKeys ==
  /\ pc = "get_api_keys"
  /\ \E value \in [Cells -> CellValues] :
       LET keys == get_api_keys(value)
       IN  /\ api_keys' = keys
           /\ settings' = [read |-> TRUE, value |-> value]
           /\ IF Len(keys) = 0
                THEN pc' = "done" /\ outcome' = "no_keys"
                ELSE pc' = "loop" /\ outcome' = outcome
  /\ UNCHANGED << run, exists, sheet, watermark, idx, result, retriesLeft, sub,
                  task_id, nextTask, current_attempt, fetch, report_data,
                  persist, faults, policy >>
  /\ UNCHANGED << rows_at_start, sched, runs_left, fmt, handles, clock, sheet_op >>

\* line 59: the for loop takes the next credential (lines 60-66: its
\* WildberriesAPI is built and get_task_id called), or ends, and the run with
\* it (line 85)
NextCredential ==
  /\ pc = "loop"
  /\ IF idx < Len(api_keys)
       THEN /\ idx' = idx + 1
            /\ pc' = "get_task_id"
            /\ result' = [result EXCEPT ![api_keys[idx + 1]] = "submit"]
            /\ outcome' = outcome
       ELSE /\ idx' = idx
            /\ pc' = "done"
            /\ result' = result
            /\ outcome' = "completed"
  /\ retriesLeft' = MAX_RETRIES
  /\ sub' = NewSub
  /\ task_id' = 0
  /\ current_attempt' = 0
  /\ fetch' = NewFetch
  /\ report_data' = NoBody
  /\ persist' = NoPersist
  /\ UNCHANGED << run, exists, sheet, watermark, api_keys, nextTask, faults,
                  policy >>
  /\ UNCHANGED << rows_at_start, settings, sched, runs_left, fmt, handles, clock, sheet_op >>

\* the steps of the loop body a credential has reached, by its result
Submitted(c) == result[c] # ""

Fetched(c) ==
  result[c] \in {"fetch", "fetch_failed", "fetch_raised", "format",
                 "format_raised", "no_rows", "written"}

Written(c) == result[c] = "written"

\* the test of line 67 with every value of task_id taken for a task id
not_task_id_never(tid) == FALSE

\* main.py line 67 taking every task id for none
not_task_id_always(tid) == TRUE

\* `if not task_id` of line 67; 0 stands for None
not_task_id(tid) == tid = 0

\* lines 65-69 with get_task_id: one HTTP request of the session.get of
\* get_task_id and, when session.get is over, what get_task_id and the loop
\* body do with its outcome
SubmitRequest ==
  /\ pc = "get_task_id"
  /\ \E answer \in SubmitAnswers, u \in Draws :
       LET cell == api_keys[idx]
           res  == session_get(answer, retriesLeft)
           step == get_task_id_step(res, Draw(60, 120, u))
           seen == [sub EXCEPT
                      !.gets = IF retriesLeft = MAX_RETRIES THEN @ + 1 ELSE @,
                      !.requests = @ + 1,
                      !.n429 = IF answer.kind = "429" THEN @ + 1 ELSE @,
                      !.exc = res.exc,
                      !.got = IF answer.kind = "200" THEN answer.body.shape ELSE ""]
           over == [seen EXCEPT !.why = step.why]
       IN  IF res.type = "retry"
             THEN /\ retriesLeft' = retriesLeft - 1
                  /\ sub' = seen
                  /\ UNCHANGED <<pc, outcome, result, task_id, nextTask>>
           ELSE /\ retriesLeft' = MAX_RETRIES
                /\ IF step.act = "recurse"
                     THEN /\ sub' = [seen EXCEPT !.slept = step.sleep]
                          /\ UNCHANGED <<pc, outcome, result, task_id, nextTask>>
                   ELSE IF step.act = "raise"
                     THEN /\ Crash(IF step.why = "sleep" THEN "ValueError"
                                   ELSE "AttributeError")
                          /\ sub' = over
                          /\ result' = [result EXCEPT ![cell] = "submit_raised"]
                          /\ UNCHANGED <<task_id, nextTask>>
                   ELSE /\ sub' = over
                        /\ task_id' = IF step.value = "task" THEN nextTask ELSE 0
                        /\ nextTask' = IF step.value = "task" THEN nextTask + 1
                                       ELSE nextTask
                        /\ UNCHANGED outcome
                        /\ IF not_task_id(task_id')
                             THEN /\ pc' = "loop"
                                  /\ result' = [result EXCEPT
                                                  ![cell] = "submit_failed"]
                             ELSE /\ pc' = "get_storage_report"
                                  /\ result' = [result EXCEPT ![cell] = "fetch"]
  /\ handles' = IF nextTask' # nextTask
                  THEN Append(handles, NewHandle(nextTask, api_keys[idx], run))
                ELSE handles
  /\ UNCHANGED << run, exists, sheet, watermark, api_keys, idx,
                  current_attempt, fetch, report_data, persist, faults, policy >>
  /\ UNCHANGED << rows_at_start, settings, sched, runs_left, fmt, clock, sheet_op >>

\* lines 71-75 with get_storage_report: one HTTP request of the session.get of
\* a loop iteration (the iteration's polling sleep comes before the first one)
\* and, when session.get is over, what the iteration and the loop body do with
\* its outcome
DownloadRequest ==
  /\ pc = "get_storage_report"
  /\ sub' = NewSub
  /\ \E answer \in DownloadAnswers, u \in Draws :
       LET cell  == api_keys[idx]
           res   == session_get(task_download(answer, cell, task_id),
                                retriesLeft)
           step  == get_storage_report_step(res, current_attempt,
                                            Draw(60, 120, u), Draw(30, 60, u),
                                            Draw(180, 300, u))
           first == IF fetch.inGet THEN fetch
                    ELSE [fetch EXCEPT
                            !.inGet = TRUE,
                            !.downloads = @ + 1,
                            !.pollDelay = PollingDelay(current_attempt),
                            !.extraSleep = NoSleep,
                            !.got = "",
                            !.saw429 = FALSE,
                            !.exc = "",
                            !.lastOutcome = ""]
           began == [first EXCEPT !.saw429 = @ \/ answer.kind = "429"]
           over  == [began EXCEPT
                       !.inGet = FALSE,
                       !.extraSleep = step.sleep,
                       !.got = IF answer.kind = "200" THEN answer.body.shape ELSE "",
                       !.exc = IF res.type = "exception" THEN res.exc
                               ELSE IF res.status \notin {"200", "429"}
                                 THEN "HTTPError" ELSE "",
                       !.lastOutcome = step.why,
                       !.emptyCount =
                          IF answer.kind = "200" /\ answer.body.shape = "empty"
                            THEN @ + 1 ELSE @]
       IN  IF res.type = "retry"
             THEN /\ retriesLeft' = retriesLeft - 1
                  /\ fetch' = began
                  /\ UNCHANGED <<pc, outcome, result, current_attempt, report_data>>
           ELSE /\ retriesLeft' = MAX_RETRIES
                /\ current_attempt' = step.attempt
                /\ IF step.act = "raise"
                     THEN /\ Crash("ValueError")
                          /\ fetch' = [over EXCEPT !.end = "raised"]
                          /\ result' = [result EXCEPT ![cell] = "fetch_raised"]
                          /\ UNCHANGED report_data
                   ELSE IF step.act = "return" /\ step.value = "data"
                     THEN /\ pc' = "persist"
                          /\ report_data' = res.body
                          /\ fetch' = [over EXCEPT !.end = "data"]
                          /\ result' = [result EXCEPT ![cell] = "format"]
                          /\ UNCHANGED outcome
                   ELSE IF step.act = "return"
                     THEN /\ pc' = "loop"
                          /\ fetch' = [over EXCEPT !.end = "error"]
                          /\ result' = [result EXCEPT ![cell] = "fetch_failed"]
                          /\ UNCHANGED <<outcome, report_data>>
                   ELSE IF step.attempt < max_attempts
                     THEN /\ fetch' = over
                          /\ UNCHANGED <<pc, outcome, result, report_data>>
                   ELSE /\ pc' = "loop"
                        /\ fetch' = [over EXCEPT !.end = "exhausted"]
                        /\ result' = [result EXCEPT ![cell] = "fetch_failed"]
                        /\ UNCHANGED <<outcome, report_data>>
  /\ handles' = IF ~fetch.inGet /\ fetch.downloads = 0
                  THEN get_storage_report_enter(handles, task_id,
                                                api_keys[idx], run)
                ELSE handles
  /\ UNCHANGED << run, exists, sheet, watermark, api_keys, idx, task_id,
                  nextTask, persist, faults, policy >>
  /\ UNCHANGED << rows_at_start, settings, sched, runs_left, fmt, clock, sheet_op >>

\* append_report_data with the sheet of the other cell
reports_sheets_other(cell) ==
  IF cell = REPORTS_CONFIG[1] THEN REPORTS_CONFIG[2] ELSE REPORTS_CONFIG[1]

\* append_report_data with the sheet of the first cell for every cell
reports_sheets_first(cell) == REPORTS_CONFIG[1]

\* self.reports_sheets.get(api_key_cell): the sheet append_report_data writes
\* to is the one _get_or_create_reports_sheets stored under the cell
reports_sheets_get(cell) == cell

\* lines 77-83: format_storage_data, then append_report_data on the sheet of
\* the credential's cell; a body that is no list of objects makes
\* format_storage_data raise AttributeError
Persist ==
  /\ pc = "persist"
  /\ LET cell == api_keys[idx]
     IN  IF report_data.shape = "bad_shape"
           THEN /\ Crash("AttributeError")
                /\ result' = [result EXCEPT ![cell] = "format_raised"]
                /\ UNCHANGED <<sheet, persist, faults>>
         ELSE LET formatted_data == format_storage_data(report_data.records)
              IN  /\ pc' = "loop"
                  /\ outcome' = outcome
                  /\ IF Len(formatted_data) > 0
                       THEN \E hdr_failed, clear_failed, append_failed \in BOOLEAN :
                              /\ faults + Raised(<<hdr_failed, clear_failed,
                                                   append_failed>>) <= MaxFaults
                              /\ faults' = faults + Raised(<<hdr_failed,
                                                   clear_failed, append_failed>>)
                              /\ sheet' = [sheet EXCEPT ![reports_sheets_get(cell)] =
                                   append_report_data(@, formatted_data, hdr_failed,
                                                      clear_failed, append_failed)]
                              /\ result' = [result EXCEPT ![cell] = "written"]
                              /\ persist' = [called |-> TRUE,
                                             prior  |-> DataRows(sheet[cell]),
                                             new    |-> formatted_data,
                                             raised |-> <<hdr_failed, clear_failed,
                                                          append_failed>>]
                       ELSE /\ result' = [result EXCEPT ![cell] = "no_rows"]
                            /\ UNCHANGED <<sheet, persist, faults>>
  /\ fetch' = NewFetch
  /\ current_attempt' = 0
  /\ UNCHANGED << run, exists, watermark, api_keys, idx, retriesLeft, sub,
                  task_id, nextTask, report_data, policy >>
  /\ UNCHANGED << rows_at_start, settings, sched, runs_left, fmt, handles, clock, sheet_op >>

----------------------------------------------------------------------------
(* main.py: main *)

\* process_storage_report has returned.  After the immediate run (line 99)
\* main registers the weekly job (lines 101-115) and enters the while loop;
\* after a scheduled run, run_pending returns and the loop sleeps (line 121)
AfterRun ==
  /\ pc = "done"
  /\ pc' = "run_pending"
  /\ sched' = IF sched.registered
                THEN [sched EXCEPT !.pause = loop_pause,
                                   !.next_run = schedule_next_run(clock)]
              ELSE [sched EXCEPT !.registered = TRUE,
                                 !.next_run = schedule_next_run(clock)]
  /\ UNCHANGED << run, outcome, exists, sheet, watermark, api_keys, idx, result,
                  retriesLeft, sub, task_id, nextTask, current_attempt, fetch,
                  report_data, persist, faults, policy >>
  /\ UNCHANGED << rows_at_start, settings, runs_left, fmt, handles, clock, sheet_op >>

\* lines 118-124: an iteration of the while loop in which no job is due:
\* run_pending returns and the loop sleeps, or run_pending raises, the except of
\* line 122 logs, sleeps, and the loop goes on (StartRun is the iteration in
\* which the job is due)
RunPending ==
  /\ pc = "run_pending"
  /\ ~should_run(sched, clock)
  /\ \E raised \in BOOLEAN :
       sched' = [sched EXCEPT !.raised = raised, !.pause = loop_pause]
  /\ \E tick \in {0, 1} :
       /\ sleep_60(clock, tick).week <= MaxWeeks
       /\ clock' = sleep_60(clock, tick)
  /\ UNCHANGED << pc, run, outcome, exists, sheet, watermark, api_keys, idx,
                  result, retriesLeft, sub, task_id, nextTask, current_attempt,
                  fetch, report_data, persist, faults, policy >>
  /\ UNCHANGED << rows_at_start, settings, runs_left, fmt, handles, sheet_op >>

Next ==
  \/ StartRun
  \/ EnsureHeaders
  \/ GetApiKeys
  \/ NextCredential
  \/ SubmitRequest
  \/ DownloadRequest
  \/ Persist
  \/ AfterRun
  \/ RunPending

Spec == Init /\ [][Next]_vars

\* The same behaviours with every request of get_storage_report coming to an
\* end: session.get is given timeouts (wb_api.py line 151) and the sleeps
\* are finite, so the blocking loop always takes its next step
SpecFair == Init /\ [][Next]_vars /\ WF_vars(DownloadRequest)

\* The process followed through the immediate run and MaxRuns scheduled ones,
\* on report sheets that exist and hold the header and a row of an earlier
\* week
InitMain ==
  /\ pc = "boot"
  /\ exists = [c \in Cells |-> TRUE]
  /\ sheet = [c \in Cells |-> <<HEADERS, OldRow>>]
  /\ watermark = "2025-06-08"
  /\ policy = NoPolicy
  /\ fmt = NoFormat
  /\ runs_left = MaxRuns + 1
  /\ RunFields

SpecMain == InitMain /\ [][Next]_vars

----------------------------------------------------------------------------
(* The rate-limit policy on its own: _handle_rate_limit on every header *)

InitPolicy ==
  /\ pc = "policy"
  /\ exists = [c \in Cells |-> TRUE]
  /\ sheet = [c \in Cells |-> <<HEADERS>>]
  /\ watermark = ""
  /\ policy \in [retry_after : RetryAfterHeaders, wait : {0}]
  /\ fmt = NoFormat
  /\ runs_left = 0
  /\ RunFields

PolicyCall ==
  /\ pc = "policy"
  /\ \E rnd \in RateLimitJitter :
       policy' = [policy EXCEPT !.wait = handle_rate_limit(policy.retry_after, rnd)]
  /\ pc' = "policy_done"
  /\ UNCHANGED << run, outcome, exists, sheet, watermark, api_keys, idx, result,
                  retriesLeft, sub, task_id, nextTask, current_attempt, fetch,
                  report_data, persist, faults >>
  /\ UNCHANGED << rows_at_start, settings, sched, runs_left, fmt, handles, clock, sheet_op >>

NextPolicy == PolicyCall

SpecPolicy == InitPolicy /\ [][NextPolicy]_vars

----------------------------------------------------------------------------
(* format_storage_data on its own: every list of at most MaxRecords records  *)
(* whose fields are a subset of FormatSampleFields                           *)

\* a text field, a field with default 0, an identifier (a number in the
\* reports, default "") and a field format_storage_data does not know
FormatSampleFields == {"date", "volume", "nmId", "unknownField"}

FormatSampleValue(f) ==
  CASE f = "date" -> "2025-06-09"
    [] f = "volume" -> 2
    [] f = "nmId" -> 148190095
    [] f = "unknownField" -> "x"

FormatSamples ==
  {[f \in D |-> FormatSampleValue(f)] : D \in SUBSET FormatSampleFields}

FormatInputs == SeqsUpTo(FormatSamples, MaxRecords)

\* the columns of a row: the field names in the order of the row literal
RowFields == [k \in 1..Len(FormatFields) |-> FormatFields[k][1]]

\* the fields whose item.get has the default 0
NumericFields ==
  {"logWarehouseCoef", "warehouseCoef", "volume", "warehousePrice",
   "barcodesCount", "palletCount", "loyaltyDiscount"}

InitFormat ==
  /\ pc = "format"
  /\ exists = [c \in Cells |-> TRUE]
  /\ sheet = [c \in Cells |-> <<HEADERS>>]
  /\ watermark = ""
  /\ policy = NoPolicy
  /\ fmt \in [called : {FALSE}, data : FormatInputs, rows : {<<>>}]
  /\ runs_left = 0
  /\ RunFields

FormatCall ==
  /\ pc = "format"
  /\ fmt' = [fmt EXCEPT !.called = TRUE, !.rows = format_storage_data(fmt.data)]
  /\ pc' = "format_done"
  /\ UNCHANGED << run, outcome, exists, sheet, watermark, api_keys, idx, result,
                  retriesLeft, sub, task_id, nextTask, current_attempt, fetch,
                  report_data, persist, faults, policy >>
  /\ UNCHANGED << rows_at_start, settings, sched, runs_left, handles, clock, sheet_op >>

NextFormat == FormatCall

SpecFormat == InitFormat /\ [][NextFormat]_vars

----------------------------------------------------------------------------
(* The header check, the clearing and the persist operation on their own, *)
(* in every order, on the sheet of the first key cell                     *)

\* a first row with the right first title and 23 cells, one other title changed
RenamedHeader == [HEADERS EXCEPT ![2] = "Coef"]

\* a first row that ends before the last column title
ShortHeader == SubSeq(HEADERS, 1, Len(HEADERS) - 1)

\* a first row with a wrong first title and a note to the right of column W
LongWrongHeader == WrongHeader \o <<"note">>

\* what a report sheet can hold when an operation begins: nothing, the header
\* alone or above a row, a first row that differs from the header, a blank
\* first row above a row
SheetInputs ==
  { <<>>, <<HEADERS>>, <<HEADERS, OldRow>>, <<WrongHeader, OldRow>>,
    <<RenamedHeader, OldRow>>, <<ShortHeader>>, <<LongWrongHeader, OldRow>>,
    << <<>>, OldRow >> }

\* the key cell whose sheet the operations are applied to
SheetCell == REPORTS_CONFIG[1]

InitSheet ==
  /\ pc = "sheet"
  /\ exists = [c \in Cells |-> TRUE]
  /\ sheet \in {[c \in Cells |-> IF c = SheetCell THEN s ELSE <<HEADERS>>] :
                  s \in SheetInputs}
  /\ watermark = ""
  /\ policy = NoPolicy
  /\ fmt = NoFormat
  /\ runs_left = 0
  /\ RunFields

\* what every sheet operation leaves alone
SheetFrame ==
  /\ pc' = pc
  /\ UNCHANGED << run, outcome, exists, watermark, api_keys, idx, result,
                  retriesLeft, sub, task_id, nextTask, current_attempt, fetch,
                  report_data, persist, faults, policy >>
  /\ UNCHANGED << rows_at_start, settings, sched, runs_left, fmt, handles,
                  clock >>

SheetDone(op) ==
  sheet_op' = [n |-> sheet_op.n + 1, op |-> op,
               first_before |-> row_values_1(sheet[SheetCell])]

\* sheets_client.py lines 221-243
SheetEnsureHeaders ==
  /\ pc = "sheet"
  /\ sheet_op.n < MaxOps
  /\ \E failed \in BOOLEAN :
       sheet' = [sheet EXCEPT ![SheetCell] = ensure_headers(@, failed)]
  /\ SheetDone("_ensure_headers")
  /\ SheetFrame

\* sheets_client.py lines 99-122
SheetClear ==
  /\ pc = "sheet"
  /\ sheet_op.n < MaxOps
  /\ \E failed \in BOOLEAN :
       sheet' = [sheet EXCEPT ![SheetCell] = clear_sheet_data(@, failed)]
  /\ SheetDone("_clear_sheet_data")
  /\ SheetFrame

\* sheets_client.py lines 245-274
SheetAppend ==
  /\ pc = "sheet"
  /\ sheet_op.n < MaxOps
  /\ \E r \in Reports, hdr_failed, clear_failed, append_failed \in BOOLEAN :
       sheet' = [sheet EXCEPT ![reports_sheets_get(SheetCell)] =
                   append_report_data(@, format_storage_data(r), hdr_failed,
                                      clear_failed, append_failed)]
  /\ SheetDone("append_report_data")
  /\ SheetFrame

NextSheet ==
  \/ SheetEnsureHeaders
  \/ SheetClear
  \/ SheetAppend

SpecSheet == InitSheet /\ [][NextSheet]_vars

----------------------------------------------------------------------------
(* Properties *)

\* C1: a failure while handling one credential does not abort the run: when a
\* run over a non-empty set of credentials has ended, get_task_id was called
\* for every one of them.
C1_EveryCredentialSubmitted ==
  (pc = "done" /\ Len(api_keys) > 0) =>
     \A i \in 1..Len(api_keys) : Submitted(api_keys[i])

\* C2: after a run has gone through all its credentials, the last processed
\* date of the settings sheet is the end date of the run's date range.
C2_WatermarkAdvanced ==
  (pc = "done" /\ outcome = "completed") => watermark = date_to_str

\* C3: when append_report_data has ended for a credential, the rows below the
\* first row of its sheet are the complete rows of before the call or the
\* complete new rows.
C3_NoPartialWrite ==
  persist.called =>
     \/ DataRows(sheet[api_keys[idx]]) = persist.prior
     \/ DataRows(sheet[api_keys[idx]]) = persist.new

\* C4: when every session.get of a get_storage_report call was answered with
\* an empty body, the call returns None after exactly 5 calls of session.get
\* and 5 consumed attempts, and the credential is skipped.
C4_AllEmptyFailsAfterFive ==
  (fetch.end # "" /\ fetch.emptyCount = fetch.downloads) =>
     /\ fetch.end = "exhausted"
     /\ fetch.downloads = 5
     /\ current_attempt = 5
     /\ pc = "loop"
     /\ result[api_keys[idx]] = "fetch_failed"

C4_Witness ==
  fetch.end = "exhausted" /\ fetch.emptyCount = 5 /\ fetch.downloads = 5

\* C5: get_storage_report returns the body of the first session.get that is
\* answered with a non-empty body and makes no further request: the attempt
\* is not consumed, the loop body goes on to format the body; after the
\* answers [empty, non-empty] exactly 2 calls of session.get were made.
C5_ReturnsFirstNonEmpty ==
  /\ (~fetch.inGet /\ fetch.got \in {"records", "bad_shape"}) =>
        /\ fetch.end = "data"
        /\ pc = "persist"
        /\ report_data.shape = fetch.got
        /\ current_attempt = fetch.downloads - 1
  /\ (fetch.end = "data" /\ fetch.emptyCount = 1 /\ current_attempt = 1) =>
        fetch.downloads = 2

C5_Witness ==
  /\ fetch.end = "data"
  /\ fetch.emptyCount = 1
  /\ fetch.downloads = 2
  /\ report_data.shape = "records"
  /\ pc = "persist"

\* C6: whatever the outcomes of its attempts, a get_storage_report call makes
\* at most 5 calls of session.get and its current_attempt never exceeds 5.
C6_AtMostFiveAttempts ==
  fetch.downloads <= 5 /\ current_attempt <= 5

C6_Witness ==
  /\ fetch.end = "exhausted"
  /\ fetch.downloads = 5
  /\ current_attempt = 5
  /\ fetch.emptyCount = 1
  /\ fetch.extraSleep.kind = "cooldown"

\* C7: the polling sleep before the k-th call of session.get (k = 0..4) of a
\* get_storage_report call is RETRY_DELAY * 2^k seconds, whatever the earlier
\* attempts gave, the first call included, without a cap.
C7_PollingDelay ==
  fetch.downloads > 0 =>
     fetch.pollDelay = RETRY_DELAY * (2 ^ (fetch.downloads - 1))

C7_Witness ==
  fetch.downloads = 5 /\ fetch.pollDelay = 960 /\ fetch.emptyCount < 4

\* C8: _handle_rate_limit returns N for a Retry-After value that parses as a
\* non-negative integer N, a random integer of 60..120 without the header or
\* with a value that is no integer, and never a negative wait.
C8_PolicyWait ==
  pc = "policy_done" =>
     LET hint == policy.retry_after
         n    == PyInt(hint.text)
     IN  /\ (hint.present /\ n.ok /\ n.val >= 0) => policy.wait = n.val
         /\ (~hint.present \/ ~n.ok) => policy.wait \in 60..120
         /\ policy.wait >= 0

\* C9: a 429 answer to get_task_id is followed by a sleep and the same request
\* again, against no budget: a get_task_id call that was answered with 429
\* only has not ended.
C9_RateLimitedSubmitRetries ==
  sub.why = "" \/ sub.n429 < sub.requests

\* C10: when the session.get of get_task_id raises (a timeout, or a transport
\* failure after the retry budget of the session), get_task_id returns None
\* after that one call of session.get, and the loop body skips the credential:
\* no download, no write, and the loop goes on.
C10_SubmitFailureSkipsCredential ==
  sub.exc # "" =>
     /\ sub.gets = 1
     /\ sub.why \in {"timeout", "transport_error"}
     /\ sub.why = "timeout" <=> sub.exc = "Timeout"
     /\ pc = "loop"
     /\ outcome = "running"
     /\ result[api_keys[idx]] = "submit_failed"
     /\ task_id = 0
     /\ fetch.downloads = 0
     /\ ~persist.called

C10_Witness ==
  /\ sub.exc = "Timeout"
  /\ pc = "loop"
  /\ idx = 1
  /\ Len(api_keys) = 2

\* C11: when the submit is answered with status 200, get_task_id returns the
\* task id of the body and the loop body goes on to the download; when the body
\* holds no task id, get_task_id returns None and the loop body skips the
\* credential, and no exception leaves get_task_id.
C11_SubmitPayload ==
  /\ sub.got = "task" =>
        /\ task_id # 0
        /\ pc = "get_storage_report"
        /\ result[api_keys[idx]] = "fetch"
  /\ sub.got \in {"no_task", "bad_shape"} =>
        /\ pc = "loop"
        /\ outcome = "running"
        /\ result[api_keys[idx]] = "submit_failed"
        /\ task_id = 0

\* C12: a session.get of get_storage_report that was answered with status 429
\* ends with the sleep of _handle_rate_limit and one more consumed attempt, and
\* the loop goes on.
C12_RateLimitedDownload ==
  (~fetch.inGet /\ fetch.saw429) =>
     /\ fetch.extraSleep.kind = "rate_limit"
     /\ current_attempt = fetch.downloads
     /\ fetch.end \in {"", "exhausted"}

\* C13: when the session.get of a loop iteration raises the RetryError of the
\* exhausted 429 budget, the iteration sleeps a random 180..300 seconds,
\* consumes one attempt and the loop goes on; every other exception that is
\* neither a timeout nor a connection error makes get_storage_report return
\* None at once, without a sleep and without a further session.get.
C13_CooldownOrAbort ==
  /\ (~fetch.inGet /\ fetch.exc = "RetryError429") =>
        /\ fetch.extraSleep.kind = "cooldown"
        /\ fetch.extraSleep.secs \in 180..300
        /\ current_attempt = fetch.downloads
        /\ IF current_attempt < 5
             THEN fetch.end = "" /\ pc = "get_storage_report"
             ELSE fetch.end = "exhausted" /\ pc = "loop"
  /\ (~fetch.inGet /\ fetch.exc \in {"RetryError5xx", "HTTPError"}) =>
        /\ fetch.end = "error"
        /\ fetch.extraSleep = NoSleep
        /\ current_attempt = fetch.downloads - 1
        /\ pc = "loop"
        /\ result[api_keys[idx]] = "fetch_failed"
        /\ report_data = NoBody

C13_Witness ==
  /\ fetch.exc = "RetryError429"
  /\ ~fetch.inGet
  /\ fetch.downloads = 2
  /\ fetch.extraSleep.secs = 300
  /\ pc = "get_storage_report"

\* C14: a timeout and a connection error of the session.get of a loop
\* iteration each consume one attempt and the loop goes on; after a connection
\* error the iteration sleeps a random 30..60 seconds, after a timeout it does
\* not sleep.
C14_TimeoutAndConnectionError ==
  /\ (~fetch.inGet /\ fetch.exc = "Timeout") =>
        /\ fetch.extraSleep = NoSleep
        /\ current_attempt = fetch.downloads
        /\ IF current_attempt < 5
             THEN fetch.end = "" /\ pc = "get_storage_report"
             ELSE fetch.end = "exhausted" /\ pc = "loop"
  /\ (~fetch.inGet /\ fetch.exc = "ConnectionError") =>
        /\ fetch.extraSleep.kind = "settle"
        /\ fetch.extraSleep.secs \in 30..60
        /\ current_attempt = fetch.downloads
        /\ IF current_attempt < 5
             THEN fetch.end = "" /\ pc = "get_storage_report"
             ELSE fetch.end = "exhausted" /\ pc = "loop"

C14_Witness ==
  /\ fetch.exc = "ConnectionError"
  /\ ~fetch.inGet
  /\ fetch.downloads = 3
  /\ fetch.extraSleep.secs = 30
  /\ fetch.emptyCount = 0
  /\ pc = "get_storage_report"

\* C15: the sheet of a credential whose get_task_id or get_storage_report
\* returned None keeps the rows below its first row as the run found them,
\* and the sheet of a credential whose rows were written without a spreadsheet
\* call raising holds the new rows below its first row.
C15_FailedCredentialUntouched ==
  /\ \A c \in Cells :
        result[c] \in {"submit_failed", "fetch_failed"} =>
           DataRows(sheet[c]) = rows_at_start[c]
  /\ (persist.called /\ persist.raised = <<FALSE, FALSE, FALSE>>) =>
        DataRows(sheet[api_keys[idx]]) = persist.new

C15_Witness ==
  /\ idx = 2
  /\ result["B1"] = "submit_failed"
  /\ result["C1"] = "written"
  /\ persist.called
  /\ persist.raised = <<FALSE, FALSE, FALSE>>
  /\ Len(rows_at_start["B1"]) = 1
  /\ Len(persist.prior) = 1
  /\ DataRows(sheet["B1"]) = rows_at_start["B1"]
  /\ DataRows(sheet["C1"]) = persist.new

\* C16: when append_report_data has appended new rows to the sheet of a
\* credential, the sheet holds the header row followed by exactly the new
\* rows, in order: every row below the header was cleared before the write.
C16_ClearedBeforeWrite ==
  (persist.called /\ ~persist.raised[3]) =>
     /\ Len(sheet[api_keys[idx]]) = 1 + Len(persist.new)
     /\ sheet[api_keys[idx]][1] = HEADERS
     /\ DataRows(sheet[api_keys[idx]]) = persist.new

\* C17: no exception of a run ends the process: process_storage_report
\* returns normally after every exception of its collaborators, on the
\* immediate run and on a scheduled one, and an iteration of the scheduler loop
\* that raised has ended with the pause of the loop, which goes on.
C17_ProcessSurvives ==
  /\ pc # "terminated"
  /\ outcome = "crashed" => pc \in {"done", "run_pending"}
  /\ sched.raised => (sched.pause = 60 /\ pc = "run_pending")

C17_Witness ==
  /\ run = 2
  /\ outcome = "crashed"
  /\ result["B1"] = "format_raised"
  /\ pc = "run_pending"
  /\ sched.raised

\* C18: format_storage_data returns one row for every record, in the order of
\* the records ([] for []); every row has 23 elements, as many as HEADERS, in
\* the fixed field order: the value of the field when the record has it, else
\* 0 for a numeric field and the empty string for any other; fields the row
\* does not name are ignored.
C18_FormatRows ==
  fmt.called =>
     /\ Len(fmt.rows) = Len(fmt.data)
     /\ (fmt.data = <<>> => fmt.rows = <<>>)
     /\ \A i \in 1..Len(fmt.data) :
           /\ Len(fmt.rows[i]) = 23
           /\ Len(fmt.rows[i]) = Len(HEADERS)
           /\ \A k \in 1..23 :
                 fmt.rows[i][k] =
                    IF RowFields[k] \in DOMAIN fmt.data[i]
                      THEN fmt.data[i][RowFields[k]]
                    ELSE IF RowFields[k] \in NumericFields THEN 0
                    ELSE ""

C18_Witness ==
  /\ fmt.called
  /\ Len(fmt.rows) = 2
  /\ DOMAIN fmt.data[1] = {"date", "unknownField"}
  /\ DOMAIN fmt.data[2] = {"volume"}
  /\ fmt.rows[1][1] = "2025-06-09"
  /\ fmt.rows[1][14] = 0
  /\ fmt.rows[2][1] = ""
  /\ fmt.rows[2][14] = 2
  /\ Len(fmt.rows[1]) = 23

\* C19: when get_api_keys finds no key in any cell, the run returns at once:
\* no get_task_id and no get_storage_report call is made, the rows below the
\* first row of every report sheet are as the run found them, and the last
\* processed date is unchanged.
C19_NoCredentialsNoEffects ==
  (settings.read /\ \A c \in Cells : settings.value[c] = "") =>
     /\ outcome = "no_keys"
     /\ pc \in {"done", "run_pending"}
     /\ \A c \in Cells : result[c] = ""
     /\ sub = NewSub
     /\ fetch = NewFetch
     /\ task_id = 0
     /\ ~persist.called
     /\ \A c \in Cells : DataRows(sheet[c]) = rows_at_start[c]
     /\ watermark = "2025-06-08"

C19_Witness ==
  /\ settings.read
  /\ \A c \in Cells : settings.value[c] = ""
  /\ outcome = "no_keys"
  /\ pc = "done"
  /\ Len(rows_at_start["B1"]) = 1

\* C20: the credentials of a run are processed one after the other, each in
\* the order submit, download, format, write: get_storage_report is called
\* only with a task id its get_task_id returned, the rows are written only
\* after get_storage_report returned a non-empty list of records, and while a
\* credential is in one of its steps every earlier credential has ended and no
\* later one has begun.
C20_OneCredentialAtATime ==
  /\ \A i \in 1..Len(api_keys) :
        /\ i < idx => result[api_keys[i]] \in
                        {"submit_failed", "fetch_failed", "no_rows", "written"}
        /\ i > idx => result[api_keys[i]] = ""
  /\ (pc = "get_storage_report" \/ fetch.downloads > 0) => task_id # 0
  /\ (pc = "persist" \/ persist.called) =>
        (task_id # 0 /\ report_data.shape \in {"records", "bad_shape"})
  /\ persist.called =>
        (report_data.shape = "records" /\ Len(report_data.records) > 0)

C20_Witness ==
  /\ idx = 2
  /\ result["B1"] = "written"
  /\ pc = "get_storage_report"
  /\ fetch.downloads = 1
  /\ fetch.inGet

\* C21: every task id a get_task_id call returned is given to exactly one
\* get_storage_report call, made for the same credential in the same run: it
\* is given to no second call, to no call of another credential or of a
\* later run, and the only task id no call was given yet is the one the
\* current credential has just received and is about to use.
C21_HandleConsumedOnce ==
  \A i \in 1..Len(handles) :
     LET h == handles[i]
     IN  /\ Len(h.calls) <= 1
         /\ Len(h.calls) = 1 => h.calls[1] = <<h.cell, h.run>>
         /\ Len(h.calls) = 0 =>
               /\ pc = "get_storage_report"
               /\ fetch.downloads = 0
               /\ task_id = h.task
               /\ run = h.run
               /\ api_keys[idx] = h.cell
         /\ \A j \in 1..Len(handles) : j # i => handles[j].task # h.task

C21_Witness ==
  /\ Len(handles) = 3
  /\ handles[1].run = 1
  /\ handles[3].run = 2
  /\ handles[2].cell = "C1"
  /\ Len(handles[3].calls) = 1
  /\ pc = "done"

\* C22: the scheduler starts the report job in the hour of the job at or after
\* the job's minute, at most once in a week, and main runs the job at once
\* when the process starts only if the process starts inside that hour.
C22_WeeklyTriggerWindowedStart ==
  /\ \A i \in 1..Len(sched.fired) :
        /\ Slots[sched.fired[i].slot] = "late"
        /\ \A j \in 1..Len(sched.fired) :
              j # i => sched.fired[j].week # sched.fired[i].week
  /\ \A i \in 1..Len(sched.immediate) :
        Slots[sched.immediate[i].slot] \in {"early", "late"}

\* C23: every get_storage_report call comes to an end.  While the call goes
\* on, the retries inside one session.get leave current_attempt as it is, and
\* every loop iteration that does not end the call adds exactly one to it; no
\* step of the call lowers it.
C23_FetchTerminates ==
  /\ [][(pc = "get_storage_report" /\ pc' = "get_storage_report") =>
           IF fetch'.inGet THEN current_attempt' = current_attempt
           ELSE current_attempt' = current_attempt + 1]_vars
  /\ (pc = "get_storage_report") ~> (pc # "get_storage_report")

C23_Witness ==
  /\ pc = "loop"
  /\ fetch.end = "exhausted"
  /\ fetch.lastOutcome = "connection_error"
  /\ fetch.emptyCount = 2
  /\ current_attempt = max_attempts
  /\ fetch.downloads = max_attempts

\* C24: the rows a run writes to the report sheet of a key cell are the rows
\* of the download made with that cell's token and with the task id that
\* cell's get_task_id call received in this run; no row on the sheet of a key
\* cell comes from the download of another cell's credential.  (Column 11 is
\* the brand, column 6 the giId of a row; the rows of earlier weeks carry
\* neither.)
C24_OwnDataOnly ==
  /\ \A c \in Cells : \A i \in 2..Len(sheet[c]) :
        LET row == sheet[c][i]
        IN  (Len(row) = Len(HEADERS) /\ row[11] # "") =>
               /\ row[11] = SellerOf(c)
               /\ \E k \in 1..Len(handles) :
                     /\ handles[k].task = row[6]
                     /\ handles[k].cell = c
                     /\ handles[k].calls = << <<c, handles[k].run>> >>
  /\ persist.called =>
        /\ \A i \in 1..Len(persist.new) :
              /\ persist.new[i][11] = SellerOf(api_keys[idx])
              /\ persist.new[i][6] = task_id
        /\ \E k \in 1..Len(handles) :
              /\ handles[k].task = task_id
              /\ handles[k].cell = api_keys[idx]
              /\ handles[k].run = run

C24_Witness ==
  /\ result["B1"] = "written"
  /\ result["C1"] = "written"
  /\ Len(sheet["B1"]) = 3
  /\ sheet["B1"][3][11] = SellerOf("B1")
  /\ sheet["C1"][2][11] = SellerOf("C1")
  /\ sheet["C1"][2][6] = 2
  /\ faults = 0

\* C25: after every sequence of header checks, clearings and persist
\* operations on a report sheet, row 1 of the sheet is the 23 column titles of
\* HEADERS, and a clearing leaves the first row it found as it was.
C25_HeaderInRowOne ==
  /\ sheet_op.n > 0 => row_values_1(sheet[SheetCell]) = HEADERS
  /\ (sheet_op.op = "_clear_sheet_data" /\ Len(sheet_op.first_before) > 0) =>
        row_values_1(sheet[SheetCell]) = sheet_op.first_before

====
